---- MODULE Spec2Model ----
(***************************************************************************)
(* Model of quiz_generator.py: the text parser parse_questions, the slide  *)
(* emitter generate_presentation and the command-line driver main.         *)
(* Text is a sequence of one-character strings, so that strip, split and   *)
(* replace are computed character by character as Python computes them.    *)
(***************************************************************************)
EXTENDS Integers, Sequences, FiniteSets, TLC

\* ---------------------------------------------------------------- bounds
MaxLen == 8          \* longest file content explored by SpecParse
MaxMainLen == 4      \* longest file content explored by Spec (main)
MaxNameLen == 5      \* longest input filename explored by SpecName
MaxArgs == 2         \* most positional arguments explored by Spec (main)

\* -------------------------------------------------------------- alphabets
Alphabet == {"a", "b", " ", "\n"}
NameAlphabet == {"a", ".", "t", "x"}

StringsUpTo(alpha, n) == UNION {[1..k -> alpha] : k \in 0..n}

Texts == StringsUpTo(Alphabet, MaxLen)
MainTexts == StringsUpTo(Alphabet, MaxMainLen)
Names == StringsUpTo(NameAlphabet, MaxNameLen)
MainNames == {<<"a", ".", "t", "x", "t">>, <<"a">>}

NL == <<"\n">>
NLNL == <<"\n", "\n">>
DotTxt == <<".", "t", "x", "t">>
DotPptx == <<".", "p", "p", "t", "x">>
EmptyStr == <<>>

\* ------------------------------------------------------ string primitives
IsSpace(c) == c \in {" ", "\n"}

Drop(s, n) == SubSeq(s, n + 1, Len(s))

StartsWith(s, p) == Len(p) <= Len(s) /\ SubSeq(s, 1, Len(p)) = p

EndsWith(s, p) == Len(p) <= Len(s) /\ SubSeq(s, Len(s) - Len(p) + 1, Len(s)) = p

RECURSIVE lstrip(_)
lstrip(s) == IF s = <<>> THEN s
             ELSE IF IsSpace(Head(s)) THEN lstrip(Tail(s)) ELSE s

RECURSIVE rstrip(_)
rstrip(s) == IF s = <<>> THEN s
             ELSE IF IsSpace(s[Len(s)]) THEN rstrip(SubSeq(s, 1, Len(s) - 1)) ELSE s

\* str.strip(): remove leading and trailing whitespace
strip(s) == rstrip(lstrip(s))

RECURSIVE SplitAcc(_, _, _)
SplitAcc(s, sep, cur) ==
    IF s = <<>> THEN <<cur>>
    ELSE IF StartsWith(s, sep)
         THEN <<cur>> \o SplitAcc(Drop(s, Len(sep)), sep, <<>>)
         ELSE SplitAcc(Tail(s), sep, Append(cur, Head(s)))

\* str.split(sep): left-to-right, non-overlapping; always at least one piece
split(s, sep) == SplitAcc(s, sep, <<>>)

RECURSIVE replace(_, _, _)
\* str.replace(old, new): every non-overlapping occurrence, left to right
replace(s, old, new) ==
    IF s = <<>> THEN <<>>
    ELSE IF StartsWith(s, old)
         THEN new \o replace(Drop(s, Len(old)), old, new)
         ELSE <<Head(s)>> \o replace(Tail(s), old, new)

Digit(d) == <<"0", "1", "2", "3", "4", "5", "6", "7", "8", "9">>[d + 1]

RECURSIVE str_int(_)
\* decimal formatting of a non-negative integer, as in f"{i}"
str_int(n) == IF n < 10 THEN <<Digit(n)>>
              ELSE str_int(n \div 10) \o <<Digit(n % 10)>>

\* ------------------------------------------------------- parse_questions
\* the blocks of a file content (line 29)
Blocks(content) == split(strip(content), NLNL)

\* the lines of one block (line 33)
BlockLines(block) == split(strip(block), NL)

AppendBlock_LastLine(qa_pairs, block) ==
    LET lines == BlockLines(block) IN
    IF Len(lines) >= 2
    THEN Append(qa_pairs, <<strip(lines[1]), strip(lines[Len(lines)])>>)
    ELSE IF Len(lines) = 1
         THEN Append(qa_pairs, <<strip(lines[1]), EmptyStr>>)
         ELSE qa_pairs

\* one iteration of the loop over blocks (lines 33-40)
AppendBlock(qa_pairs, block) ==
    LET lines == BlockLines(block) IN
    IF Len(lines) >= 2
    THEN Append(qa_pairs, <<strip(lines[1]), strip(lines[2])>>)
    ELSE IF Len(lines) = 1
         THEN Append(qa_pairs, <<strip(lines[1]), EmptyStr>>)
         ELSE qa_pairs

RECURSIVE ParseLoop_Prepend(_, _, _)
ParseLoop_Prepend(blocks, k, acc) ==
    IF k > Len(blocks) THEN acc
    ELSE ParseLoop_Prepend(blocks, k + 1, AppendBlock(<<>>, blocks[k]) \o acc)

RECURSIVE ParseLoop(_, _, _)
\* the for loop over blocks (lines 31-42)
ParseLoop(blocks, k, acc) ==
    IF k > Len(blocks) THEN acc
    ELSE ParseLoop(blocks, k + 1, AppendBlock(acc, blocks[k]))

\* parse_questions applied to the content read from the file (lines 29-42)
parse_questions(content) == ParseLoop(Blocks(content), 1, <<>>)

\* ------------------------------------------------------------ slides
\* create_slide: title textbox and one body textbox
create_slide(title_text, body_text, make_bold) ==
    [title |-> title_text,
     body  |-> << [text |-> body_text, bold |-> make_bold] >>]

\* the slide built inline in the second pass: title, question, bold answer
answer_slide(title_text, question, answer) ==
    [title |-> title_text,
     body  |-> << [text |-> question, bold |-> FALSE],
                  [text |-> answer,   bold |-> TRUE] >>]

SlideTitle(n) == str_int(n) \o <<".">>

\* ------------------------------------------------------- output filename
OutputName_NoAppend(name) == replace(name, DotTxt, DotPptx)

\* lines 195-200 of main
OutputName(name) ==
    LET replaced == replace(name, DotTxt, DotPptx) IN
    IF replaced = name THEN name \o DotPptx ELSE replaced

\* ------------------------------------------------------------- state
VARIABLES
    pc,            \* position of the run
    argv,          \* sys.argv: program name followed by the arguments
    file_state,    \* "ok", "missing" or "unreadable": what open/read does
    file_content,  \* the text of the input file when file_state = "ok"
    input_file,    \* main's input_file
    output_file,   \* main's output_file
    opened,        \* TRUE once open(filename) has been attempted
    qa_pairs,      \* the list returned by parse_questions
    i,             \* loop counter of the current pass (enumerate start=1)
    slides,        \* prs.slides
    disk,          \* what the run has written to the output path
    stdout,        \* printed messages, as tags, in order
    exit_code      \* -1 while running, then the process exit status

vars == <<pc, argv, file_state, file_content, input_file, output_file,
          opened, qa_pairs, i, slides, disk, stdout, exit_code>>

Running == -1
NoFile == [state |-> "absent", name |-> <<>>, slides |-> <<>>]
ProgName == <<"q">>

TypeOK ==
    /\ pc \in {"start", "derived", "parsed", "questions", "answers", "save",
               "saved", "done", "parse_start", "parse_done",
               "name_start", "named"}
    /\ exit_code \in {Running, 0, 1}
    /\ opened \in BOOLEAN
    /\ file_state \in {"ok", "missing", "unreadable"}

\* ------------------------------------------------------------- main
ArgvChoices ==
    UNION {{<<ProgName>> \o a : a \in [1..k -> MainNames]} : k \in 0..MaxArgs}

Init ==
    /\ pc = "start"
    /\ argv \in ArgvChoices
    /\ file_state \in {"ok", "missing", "unreadable"}
    /\ file_content \in (IF file_state = "ok" THEN MainTexts ELSE {<<>>})
    /\ input_file = <<>>
    /\ output_file = <<>>
    /\ opened = FALSE
    /\ qa_pairs = <<>>
    /\ i = 0
    /\ slides = <<>>
    /\ disk = NoFile
    /\ stdout = <<>>
    /\ exit_code = Running

Exit_AlwaysZero(code, msgs) ==
    /\ pc' = "done"
    /\ exit_code' = 0
    /\ stdout' = stdout \o msgs

\* sys.exit(code) after printing msgs; falling off main is exit status 0
Exit(code, msgs) ==
    /\ pc' = "done"
    /\ exit_code' = code
    /\ stdout' = stdout \o msgs

\* lines 185-193: wrong number of arguments
Usage ==
    /\ pc = "start"
    /\ Len(argv) # 2
    /\ Exit(1, <<"usage">>)
    /\ UNCHANGED <<argv, file_state, file_content, input_file, output_file,
                   opened, qa_pairs, i, slides, disk>>

DeriveOutput_AtLeastOneArg ==
    /\ pc = "start"
    /\ Len(argv) >= 2
    /\ input_file' = argv[2]
    /\ output_file' = OutputName(argv[2])
    /\ stdout' = Append(stdout, "reading")
    /\ pc' = "derived"
    /\ UNCHANGED <<argv, file_state, file_content, opened, qa_pairs, i,
                   slides, disk, exit_code>>

\* lines 195-202: derive the output filename
DeriveOutput ==
    /\ pc = "start"
    /\ Len(argv) = 2
    /\ input_file' = argv[2]
    /\ output_file' = OutputName(argv[2])
    /\ stdout' = Append(stdout, "reading")
    /\ pc' = "derived"
    /\ UNCHANGED <<argv, file_state, file_content, opened, qa_pairs, i,
                   slides, disk, exit_code>>

\* lines 205, 25, 216-218: open raises FileNotFoundError
ParseFileNotFound ==
    /\ pc = "derived"
    /\ file_state = "missing"
    /\ opened' = TRUE
    /\ Exit(1, <<"error_not_found">>)
    /\ UNCHANGED <<argv, file_state, file_content, input_file, output_file,
                   qa_pairs, i, slides, disk>>

\* lines 205, 25-26, 219-221: open or read raises another exception
ParseReadError ==
    /\ pc = "derived"
    /\ file_state = "unreadable"
    /\ opened' = TRUE
    /\ Exit(1, <<"error_exception">>)
    /\ UNCHANGED <<argv, file_state, file_content, input_file, output_file,
                   qa_pairs, i, slides, disk>>

\* lines 205-212: parse, then the empty-result check
Parse ==
    /\ pc = "derived"
    /\ file_state = "ok"
    /\ opened' = TRUE
    /\ LET pairs == parse_questions(file_content) IN
       /\ qa_pairs' = pairs
       /\ IF pairs = <<>>
          THEN Exit(1, <<"error_no_pairs">>)
          ELSE /\ pc' = "parsed"
               /\ stdout' = Append(stdout, "found")
               /\ UNCHANGED exit_code
    /\ UNCHANGED <<argv, file_state, file_content, input_file, output_file,
                   i, slides, disk>>

\* lines 107-115: new presentation, start of the first pass
GenStart ==
    /\ pc = "parsed"
    /\ slides' = <<>>
    /\ i' = 1
    /\ stdout' = Append(stdout, "generating_questions")
    /\ pc' = "questions"
    /\ UNCHANGED <<argv, file_state, file_content, input_file, output_file,
                   opened, qa_pairs, disk, exit_code>>

QuestionSlide_Interleaved ==
    /\ pc = "questions"
    /\ i <= Len(qa_pairs)
    /\ slides' = slides \o
                  << create_slide(SlideTitle(i), qa_pairs[i][1], FALSE),
                     answer_slide(SlideTitle(i), qa_pairs[i][1], qa_pairs[i][2]) >>
    /\ i' = i + 1
    /\ UNCHANGED <<pc, argv, file_state, file_content, input_file,
                   output_file, opened, qa_pairs, disk, stdout, exit_code>>

\* lines 118-120: one iteration of the first pass
QuestionSlide ==
    /\ pc = "questions"
    /\ i <= Len(qa_pairs)
    /\ slides' = Append(slides,
                        create_slide(SlideTitle(i), qa_pairs[i][1], FALSE))
    /\ i' = i + 1
    /\ UNCHANGED <<pc, argv, file_state, file_content, input_file,
                   output_file, opened, qa_pairs, disk, stdout, exit_code>>

\* line 122: first pass exhausted, start of the second pass
QuestionsDone ==
    /\ pc = "questions"
    /\ i > Len(qa_pairs)
    /\ i' = 1
    /\ stdout' = Append(stdout, "generating_answers")
    /\ pc' = "answers"
    /\ UNCHANGED <<argv, file_state, file_content, input_file, output_file,
                   opened, qa_pairs, slides, disk, exit_code>>

\* lines 125-173: one iteration of the second pass
AnswerSlide ==
    /\ pc = "answers"
    /\ i <= Len(qa_pairs)
    /\ slides' = Append(slides,
                        answer_slide(SlideTitle(i), qa_pairs[i][1], qa_pairs[i][2]))
    /\ i' = i + 1
    /\ UNCHANGED <<pc, argv, file_state, file_content, input_file,
                   output_file, opened, qa_pairs, disk, stdout, exit_code>>

\* second pass exhausted, control reaches line 176
AnswersDone ==
    /\ pc = "answers"
    /\ i > Len(qa_pairs)
    /\ pc' = "save"
    /\ UNCHANGED <<argv, file_state, file_content, input_file, output_file,
                   opened, qa_pairs, i, slides, disk, stdout, exit_code>>

\* line 176: prs.save completes
SaveOk ==
    /\ pc = "save"
    /\ disk' = [state |-> "complete", name |-> output_file, slides |-> slides]
    /\ pc' = "saved"
    /\ UNCHANGED <<argv, file_state, file_content, input_file, output_file,
                   opened, qa_pairs, i, slides, stdout, exit_code>>

SaveFail_Swallowed ==
    /\ pc = "save"
    /\ \E partial \in BOOLEAN :
          disk' = IF partial
                  THEN [state |-> "partial", name |-> output_file, slides |-> <<>>]
                  ELSE disk
    /\ pc' = "saved"
    /\ UNCHANGED <<argv, file_state, file_content, input_file, output_file,
                   opened, qa_pairs, i, slides, stdout, exit_code>>

\* lines 176, 219-221: prs.save raises; a partial file may be left behind
SaveFail ==
    /\ pc = "save"
    /\ \E partial \in BOOLEAN :
          disk' = IF partial
                  THEN [state |-> "partial", name |-> output_file, slides |-> <<>>]
                  ELSE disk
    /\ Exit(1, <<"error_exception">>)
    /\ UNCHANGED <<argv, file_state, file_content, input_file, output_file,
                   opened, qa_pairs, i, slides>>

\* lines 177-180, then main returns and the interpreter exits with 0
PrintSaved ==
    /\ pc = "saved"
    /\ Exit(0, <<"saved", "total_slides">>)
    /\ UNCHANGED <<argv, file_state, file_content, input_file, output_file,
                   opened, qa_pairs, i, slides, disk>>

\* lines 219-221: the slide library raises while a slide is being built
SlideError ==
    /\ pc \in {"questions", "answers"}
    /\ i <= Len(qa_pairs)
    /\ Exit(1, <<"error_exception">>)
    /\ UNCHANGED <<argv, file_state, file_content, input_file, output_file,
                   opened, qa_pairs, i, slides, disk>>

Next ==
    \/ Usage
    \/ DeriveOutput
    \/ ParseFileNotFound
    \/ ParseReadError
    \/ Parse
    \/ GenStart
    \/ QuestionSlide
    \/ QuestionsDone
    \/ AnswerSlide
    \/ AnswersDone
    \/ SaveOk
    \/ SaveFail
    \/ PrintSaved
    \/ SlideError

Spec == Init /\ [][Next]_vars

\* ------------------------------------------- parse_questions on its own
InitParse ==
    /\ pc = "parse_start"
    /\ argv = <<ProgName>>
    /\ file_state = "ok"
    /\ file_content \in Texts
    /\ input_file = <<>>
    /\ output_file = <<>>
    /\ opened = FALSE
    /\ qa_pairs = <<>>
    /\ i = 0
    /\ slides = <<>>
    /\ disk = NoFile
    /\ stdout = <<>>
    /\ exit_code = Running

\* lines 25-42: read the file and parse it
DoParse ==
    /\ pc = "parse_start"
    /\ opened' = TRUE
    /\ qa_pairs' = parse_questions(file_content)
    /\ pc' = "parse_done"
    /\ UNCHANGED <<argv, file_state, file_content, input_file, output_file,
                   i, slides, disk, stdout, exit_code>>

NextParse == DoParse

SpecParse == InitParse /\ [][NextParse]_vars

\* ------------------------------------------- the filename rule on its own
InitName ==
    /\ pc = "name_start"
    /\ argv \in {<<ProgName, n>> : n \in Names}
    /\ file_state = "ok"
    /\ file_content = <<>>
    /\ input_file = <<>>
    /\ output_file = <<>>
    /\ opened = FALSE
    /\ qa_pairs = <<>>
    /\ i = 0
    /\ slides = <<>>
    /\ disk = NoFile
    /\ stdout = <<>>
    /\ exit_code = Running

\* lines 195-200
DoName ==
    /\ pc = "name_start"
    /\ input_file' = argv[2]
    /\ output_file' = OutputName(argv[2])
    /\ pc' = "named"
    /\ UNCHANGED <<argv, file_state, file_content, opened, qa_pairs, i,
                   slides, disk, stdout, exit_code>>

NextName == DoName

SpecName == InitName /\ [][NextName]_vars

\* =====================================================================
\* Properties
\* =====================================================================
Printed(tag) == \E j \in 1..Len(stdout) : stdout[j] = tag

\* ---- the input format as the specification describes it --------------
\* the content without the final line break of its last line
Body(content) ==
    IF EndsWith(content, NL) THEN SubSeq(content, 1, Len(content) - 1)
    ELSE content

RawLines(content) == split(Body(content), NL)

RECURSIVE GroupAcc(_, _, _)
GroupAcc(lines, k, cur) ==
    IF k > Len(lines) THEN <<cur>>
    ELSE IF lines[k] = <<>>
         THEN <<cur>> \o GroupAcc(lines, k + 1, <<>>)
         ELSE GroupAcc(lines, k + 1, Append(cur, lines[k]))

\* the runs of lines between empty lines
Groups(content) == GroupAcc(RawLines(content), 1, <<>>)

HasInk(line) == \E j \in 1..Len(line) : ~IsSpace(line[j])

\* N >= 1 blocks of at least two written lines, one empty line between
\* neighbouring blocks
WellFormed(content) ==
    LET g == Groups(content) IN
    \A k \in 1..Len(g) :
        /\ Len(g[k]) >= 2
        /\ \A j \in 1..Len(g[k]) : HasInk(g[k][j])

\* C1: for a well-formed input of N blocks (each of two or more lines, one
\* blank line between blocks) parse_questions returns exactly N pairs and
\* the k-th pair is made of the first two lines of the k-th block.
C1_ParseCountAndOrder ==
    (pc = "parse_done" /\ WellFormed(file_content)) =>
        LET g == Groups(file_content) IN
        /\ Len(qa_pairs) = Len(g)
        /\ \A k \in 1..Len(g) :
               qa_pairs[k] = <<strip(g[k][1]), strip(g[k][2])>>

C1_Witness ==
    /\ pc = "parse_done"
    /\ WellFormed(file_content)
    /\ Len(Groups(file_content)) = 2
    /\ Len(qa_pairs) = 2
    /\ qa_pairs[1] # qa_pairs[2]

NonEmptyBlockCount(content) ==
    Cardinality({k \in 1..Len(Blocks(content)) : Blocks(content)[k] # <<>>})

\* C2: an empty block contributes no pair, so parse_questions returns as
\* many pairs as the content has non-empty blocks.
C2_EmptyBlockNoPair ==
    pc = "parse_done" => Len(qa_pairs) = NonEmptyBlockCount(file_content)

\* C3: when the input file exists and is empty or all whitespace, the parse
\* yields no pair, no slide is generated, nothing is written, and the run
\* ends with the "no pairs found" error and a non-zero status.
C3_EmptyFileReported ==
    (Len(argv) = 2 /\ file_state = "ok" /\ strip(file_content) = <<>>) =>
        /\ qa_pairs = <<>>
        /\ pc \in {"start", "derived", "done"}
        /\ disk = NoFile
        /\ pc = "done" => (exit_code = 1 /\ Printed("error_no_pairs"))

ExpectedQuestionSlide(k) ==
    [title |-> str_int(k) \o <<".">>,
     body  |-> << [text |-> qa_pairs[k][1], bold |-> FALSE] >>]

ExpectedAnswerSlide(k) ==
    [title |-> str_int(k) \o <<".">>,
     body  |-> << [text |-> qa_pairs[k][1], bold |-> FALSE],
                  [text |-> qa_pairs[k][2], bold |-> TRUE] >>]

DeckInOrder(deck) ==
    LET n == Len(qa_pairs) IN
    /\ Len(deck) = 2 * n
    /\ \A k \in 1..n :
           /\ deck[k] = ExpectedQuestionSlide(k)
           /\ deck[n + k] = ExpectedAnswerSlide(k)

\* C4: when the deck is saved it holds exactly 2N slides for the N parsed
\* pairs: slide k is the question slide titled "k." and slide N+k is the
\* answer slide titled "k." with question k and answer k; the N question
\* slides all come before the N answer slides.
C4_DeckOrderAtSave ==
    /\ pc \in {"save", "saved"} => DeckInOrder(slides)
    /\ disk.state = "complete" =>
           (DeckInOrder(disk.slides) /\ disk.slides[1].title = <<"1", ".">>)

C4_Witness ==
    /\ disk.state = "complete"
    /\ Len(qa_pairs) = 2
    /\ Len(disk.slides) = 4
    /\ qa_pairs[1] # qa_pairs[2]

\* the filename rule as the specification words it
SuffixRule(name) ==
    IF EndsWith(name, DotTxt)
    THEN SubSeq(name, 1, Len(name) - Len(DotTxt)) \o DotPptx
    ELSE name \o DotPptx

\* C5: the output filename replaces only a trailing ".txt" by ".pptx"; a
\* name that does not end in ".txt" gets ".pptx" appended, nothing replaced.
C5_TrailingTxtOnly ==
    pc = "named" => output_file = SuffixRule(input_file)

\* an upper bound on the number of steps the run still has to take
StepsLeft ==
    LET n == Len(qa_pairs)
        m == Len(file_content) + 1
    IN CASE pc = "start"     -> 2 * m + 7
         [] pc = "derived"   -> 2 * m + 6
         [] pc = "parsed"    -> 2 * m + 5
         [] pc = "questions" -> 2 * n + 5 - i
         [] pc = "answers"   -> n + 4 - i
         [] pc = "save"      -> 2
         [] pc = "saved"     -> 1
         [] OTHER            -> 0

\* some step of main can be taken; Parse only assigns once its guard
\* (the file could be read) holds
CanStep ==
    \/ ENABLED Usage
    \/ ENABLED DeriveOutput
    \/ ENABLED ParseFileNotFound
    \/ ENABLED ParseReadError
    \/ (pc = "derived" /\ file_state = "ok")
    \/ ENABLED GenStart
    \/ ENABLED QuestionSlide
    \/ ENABLED QuestionsDone
    \/ ENABLED AnswerSlide
    \/ ENABLED AnswersDone
    \/ ENABLED SaveOk
    \/ ENABLED SaveFail
    \/ ENABLED PrintSaved

\* C6: every run ends (a run that has not ended can always take a step,
\* and every step brings the end nearer), with one exit status that never
\* changes: 0 only when the deck was saved, non-zero after a usage error,
\* a missing or unreadable input file, an empty parse or any other
\* reported error.
C6_ExitStatus ==
    /\ [](pc # "done" => (exit_code = Running /\ CanStep))
    /\ [][StepsLeft' < StepsLeft /\ StepsLeft' >= 0]_vars
    /\ [][exit_code # Running => exit_code' = exit_code]_vars
    /\ [](pc = "done" =>
            /\ exit_code \in {0, 1}
            /\ exit_code = 0 <=> disk.state = "complete"
            /\ Len(argv) # 2 => exit_code = 1
            /\ file_state # "ok" => exit_code = 1
            /\ (opened /\ qa_pairs = <<>>) => exit_code = 1
            /\ (Printed("usage") \/ Printed("error_not_found")
                  \/ Printed("error_no_pairs") \/ Printed("error_exception"))
                 => exit_code = 1)

C6_Witness ==
    /\ pc = "done"
    /\ exit_code = 1
    /\ file_state = "ok"
    /\ Len(slides) = 2 * Len(qa_pairs)
    /\ Len(slides) > 0
    /\ disk = NoFile

\* C7: the "Presentation saved" message and exit status 0 occur only after
\* prs.save has completed; when the save fails an error is printed, the
\* success message is not, and the run exits non-zero.
C7_SuccessOnlyAfterSave ==
    /\ [](Printed("saved") => disk.state = "complete")
    /\ [](exit_code = 0 => (disk.state = "complete" /\ Printed("saved")))
    /\ []((pc = "done" /\ disk.state # "complete") =>
             (exit_code = 1 /\ ~Printed("saved")))
    /\ [][pc = "save" =>
             \/ disk'.state = "complete"
             \/ /\ exit_code' = 1
                /\ stdout' = Append(stdout, "error_exception")]_vars

C7_Witness ==
    /\ pc = "done"
    /\ disk.state = "partial"
    /\ exit_code = 1
    /\ ~Printed("saved")

\* C8 as first stated: the pair of a block is made of the first and second
\* line of the block as it stands in the input (one line: that line and an
\* empty answer).
C8_RawBlockLines ==
    pc = "parse_done" =>
        LET blocks == Blocks(file_content) IN
        /\ Len(qa_pairs) = Len(blocks)
        /\ \A k \in 1..Len(blocks) :
               LET lines == split(blocks[k], NL) IN
               qa_pairs[k] = IF Len(lines) >= 2
                             THEN <<strip(lines[1]), strip(lines[2])>>
                             ELSE <<strip(lines[1]), EmptyStr>>

\* C8: the pair of a block is made of the lines of the block once the block
\* itself is stripped of leading and trailing whitespace: with two or more
\* such lines the stripped first and second line, later lines ignored; with
\* exactly one, that line stripped and an empty answer.
C8_StrippedBlockLines ==
    pc = "parse_done" =>
        LET blocks == Blocks(file_content) IN
        /\ Len(qa_pairs) = Len(blocks)
        /\ \A k \in 1..Len(blocks) :
               LET lines == split(rstrip(lstrip(blocks[k])), NL) IN
               qa_pairs[k] = IF Len(lines) >= 2
                             THEN <<strip(lines[1]), strip(lines[2])>>
                             ELSE <<strip(lines[1]), EmptyStr>>

C8_Witness ==
    /\ pc = "parse_done"
    /\ \E k \in 1..Len(Blocks(file_content)) :
           LET raw == split(Blocks(file_content)[k], NL) IN
           /\ Len(raw) >= 3
           /\ ~HasInk(raw[1])
           /\ HasInk(raw[2])
           /\ HasInk(raw[3])
           /\ qa_pairs[k] = <<strip(raw[2]), strip(raw[3])>>

\* C9: with any number of arguments other than one the run prints the
\* usage text and exits non-zero, and never opens the input file nor
\* writes an output file.
C9_UsageOnWrongArity ==
    Len(argv) # 2 =>
        /\ pc \in {"start", "done"}
        /\ ~opened
        /\ disk = NoFile
        /\ pc = "done" => (exit_code = 1 /\ stdout = <<"usage">>)

C9_Witness ==
    /\ Len(argv) = 3
    /\ pc = "done"
    /\ exit_code = 1

\* C10: the output filename main computes is never the input filename.
C10_OutputDiffers ==
    pc = "named" => output_file # input_file

C10_Witness ==
    /\ pc = "named"
    /\ ~EndsWith(input_file, DotTxt)
    /\ Len(input_file) > 0
    /\ output_file = input_file \o DotPptx

====
